---- MODULE Spec2Model ----
(***************************************************************************)
(* HtmlCleaner (src/HtmlCleaner.py): the streaming rewriter                *)
(* HtmlCleanerParser, driven one tokenizer event at a time, and the        *)
(* clean_html entry point that feeds it.                                   *)
(*                                                                         *)
(* Python strings are TLA+ strings (Len, SubSeq and \o act on them), so    *)
(* every fragment the code formats is the text the code would produce.     *)
(* Python's None is the record None; a present value v is Some(v).         *)
(***************************************************************************)
EXTENDS Integers, Sequences, FiniteSets, TLC

VARIABLES
    config,     \* the configuration handed to clean_html
    html,       \* the raw text handed to clean_html, as far as the tokenizer has read it
    tokens,     \* the events the tokenizer has delivered so far (the last one is the current one)
    open,       \* the elements of the document whose end tag is still to come
    wellNested, \* no stray end tag has been delivered so far
    alphabet,   \* the events the document is drawn from
    parser,     \* the HtmlCleanerParser instance of this invocation
    pc,         \* where clean_html is: "feed", "done" or "failed"
    result,     \* what clean_html returned
    errors,     \* the messages passed to sublime.error_message
    view        \* the editor view HtmlCleanerCommand.run works on, None outside a command

\* the state of one invocation of clean_html
cleaner == <<config, html, tokens, open, wellNested, alphabet, parser, pc, result, errors>>

vars == <<cleaner, view>>

(***************************************************************************)
(* Bounds of the model.                                                    *)
(***************************************************************************)
MaxTokens == 4

\* the cells of a table row in the documents read whole
MaxCells == 2

\* the hidden elements and the anchors of a document with a header
MaxParts == 2

\* the nesting depth of the chains of empty elements
MaxDepth == 4

\* the regions of the selection the command runs on
MaxSelections == 2

(***************************************************************************)
(* Python values and string methods.                                       *)
(***************************************************************************)
None == [none |-> TRUE]
Some(v) == [some |-> v]

\* Python truthiness of an optional string: neither None nor "".
Truthy(v) == v # None /\ v.some # ""

\* value or ""
OrEmpty(v) == IF v = None THEN "" ELSE v.some

Last(s) == s[Len(s)]

\* s[i-1:], the text from position i on
Suffix(s, i) == IF i > Len(s) THEN "" ELSE SubSeq(s, i, Len(s))

\* s.startswith(p, i-1)
StartsAt(s, i, p) == i + Len(p) - 1 <= Len(s) /\ SubSeq(s, i, i + Len(p) - 1) = p

StartsWith(s, p) == Len(p) <= Len(s) /\ SubSeq(s, 1, Len(p)) = p

EndsWith(s, p) == Len(p) <= Len(s) /\ SubSeq(s, Len(s) - Len(p) + 1, Len(s)) = p

\* p in s
Contains(s, p) == \E i \in 1..(Len(s) - Len(p) + 1) : SubSeq(s, i, i + Len(p) - 1) = p

LowerChar(c) ==
    CASE c = "A" -> "a" [] c = "B" -> "b" [] c = "C" -> "c" [] c = "D" -> "d"
      [] c = "E" -> "e" [] c = "F" -> "f" [] c = "G" -> "g" [] c = "H" -> "h"
      [] c = "I" -> "i" [] c = "J" -> "j" [] c = "K" -> "k" [] c = "L" -> "l"
      [] c = "M" -> "m" [] c = "N" -> "n" [] c = "O" -> "o" [] c = "P" -> "p"
      [] c = "Q" -> "q" [] c = "R" -> "r" [] c = "S" -> "s" [] c = "T" -> "t"
      [] c = "U" -> "u" [] c = "V" -> "v" [] c = "W" -> "w" [] c = "X" -> "x"
      [] c = "Y" -> "y" [] c = "Z" -> "z" [] OTHER -> c

RECURSIVE Lower(_)
\* str.lower()
Lower(s) ==
    IF Len(s) <= 1 THEN LowerChar(s)
    ELSE Lower(SubSeq(s, 1, Len(s) \div 2)) \o Lower(SubSeq(s, Len(s) \div 2 + 1, Len(s)))

\* the characters \w matches
IsWordChar(c) ==
    c \in { "a", "b", "c", "d", "e", "f", "g", "h", "i", "j", "k", "l", "m",
            "n", "o", "p", "q", "r", "s", "t", "u", "v", "w", "x", "y", "z",
            "A", "B", "C", "D", "E", "F", "G", "H", "I", "J", "K", "L", "M",
            "N", "O", "P", "Q", "R", "S", "T", "U", "V", "W", "X", "Y", "Z",
            "0", "1", "2", "3", "4", "5", "6", "7", "8", "9", "_" }

RECURSIVE WordLen(_)
\* the length of the longest prefix of word characters
WordLen(s) == IF s # "" /\ IsWordChar(SubSeq(s, 1, 1)) THEN 1 + WordLen(Suffix(s, 2)) ELSE 0

\* the characters \s matches and str.strip() removes
IsSpace(c) == c \in {" ", "\n", "\t", "\r", "\f"}

RECURSIVE LStrip(_)
LStrip(s) == IF s # "" /\ IsSpace(SubSeq(s, 1, 1)) THEN LStrip(Suffix(s, 2)) ELSE s

RECURSIVE RStrip(_)
RStrip(s) ==
    IF s # "" /\ IsSpace(SubSeq(s, Len(s), Len(s))) THEN RStrip(SubSeq(s, 1, Len(s) - 1)) ELSE s

\* str.strip()
Strip(s) == RStrip(LStrip(s))

RECURSIVE Join(_, _)
\* sep.join(parts)
Join(sep, parts) ==
    IF parts = <<>> THEN ""
    ELSE IF Len(parts) = 1 THEN parts[1]
    ELSE parts[1] \o sep \o Join(sep, Tail(parts))

\* some attribute of attrs satisfies P(name, value)
AnyAttr(attrs, P(_, _)) == \E i \in 1..Len(attrs) : P(attrs[i][1], attrs[i][2])

\* re.search(key + r'\s*' + val, s)
SearchKeyWsVal(s, key, val) ==
    \E i \in 1..Len(s) :
        /\ StartsWith(Suffix(s, i), key)
        /\ StartsWith(LStrip(Suffix(s, i + Len(key))), val)

NBSP == "&nbsp;"

RECURSIVE SkipNbspRun(_)
\* the rest of s after the longest prefix (\s*&nbsp;\s*)*
SkipNbspRun(s) ==
    IF StartsWith(LStrip(s), NBSP) THEN SkipNbspRun(Suffix(LStrip(s), Len(NBSP) + 1))
    ELSE LStrip(s)

\* re.sub(r'^(\s*&nbsp;\s*)+', '', s)
StripLeadingNbsp(s) == IF StartsWith(LStrip(s), NBSP) THEN SkipNbspRun(s) ELSE s

RECURSIVE DropNbspRunRight(_)
DropNbspRunRight(s) ==
    IF EndsWith(RStrip(s), NBSP)
    THEN DropNbspRunRight(SubSeq(RStrip(s), 1, Len(RStrip(s)) - Len(NBSP)))
    ELSE RStrip(s)

\* re.sub(r'(\s*&nbsp;\s*)+$', '', s)
StripTrailingNbsp(s) == IF EndsWith(RStrip(s), NBSP) THEN DropNbspRunRight(s) ELSE s

(***************************************************************************)
(* CONFIG: the default configuration.                                      *)
(***************************************************************************)
CONFIG ==
    [ keep_tags |->
        { "p", "br", "hr",
          "h1", "h2", "h3", "h4", "h5", "h6",
          "strong", "b", "em", "i", "s", "strike",
          "a", "img",
          "ul", "ol", "li",
          "blockquote", "pre", "code" },
      remove_with_content |->
        { "script", "style", "noscript", "iframe", "object", "embed",
          "form", "input", "button", "select", "textarea",
          "nav", "header", "footer", "aside",
          "svg", "canvas" },
      table_tags |-> { "table", "thead", "tbody", "tfoot", "tr", "td", "th" },
      keep_attributes |->
        [ a |-> { "href", "title" },
          img |-> { "src", "alt", "width", "height" } ],
      remove_classes |-> TRUE,
      remove_ids |-> TRUE,
      remove_inline_styles |-> TRUE,
      remove_data_attributes |-> TRUE,
      remove_empty_tags |-> TRUE,
      remove_comments |-> TRUE,
      convert_b_to_strong |-> FALSE,
      remove_successive_nbsp |-> TRUE,
      remove_span_tags |-> TRUE,
      preserve_line_breaks |-> TRUE,
      convert_tables_to_paragraphs |-> TRUE ]

\* dict.get(key, [])
Get(d, key) == IF key \in DOMAIN d THEN d[key] ELSE {}

(***************************************************************************)
(* HtmlCleanerParser.                                                      *)
(***************************************************************************)
\* HtmlCleanerParser.__init__
NewParser ==
    [ output |-> <<>>,
      skip_depth |-> 0,
      pretext_depth |-> 0,
      pretext_content |-> <<>>,
      pretexts |-> <<>>,
      bold_tag_stack |-> <<>>,
      links |-> <<>>,
      link_set |-> {},
      title |-> None,
      in_title |-> FALSE,
      title_content |-> <<>>,
      inline_anchor_depth |-> 0 ]

\* self.output.append(fragment)
Emit(self, fragment) == [self EXCEPT !.output = Append(@, fragment)]

HiddenPatterns ==
    { "display: none", "display:none",
      "visibility: hidden", "visibility:hidden",
      "mso-hide: all", "mso-hide:all",
      "max-height: 0", "max-height:0",
      "opacity: 0", "opacity:0" }

_is_hidden_pretext(attrs) ==
    LET Hidden(name, value) ==
            /\ name = "style"
            /\ Truthy(value)
            /\ \E pattern \in HiddenPatterns : Contains(Lower(value.some), pattern)
    IN  AnyAttr(attrs, Hidden)

_has_bold_style(attrs) ==
    LET Bold(name, value) ==
            /\ name = "style"
            /\ Truthy(value)
            /\ \/ Contains(Lower(value.some), "font-weight: bold")
               \/ Contains(Lower(value.some), "font-weight:bold")
    IN  AnyAttr(attrs, Bold)

_is_tracking_pixel(attrs) ==
    LET One(value) == value # None /\ value.some \in { "1", "1px" }
        Width(name, value) ==
            \/ name = "width" /\ One(value)
            \/ /\ ~(name = "width" /\ One(value))
               /\ ~(name = "height" /\ One(value))
               /\ name = "style"
               /\ Truthy(value)
               /\ SearchKeyWsVal(Lower(value.some), "width:", "1px")
        Height(name, value) ==
            \/ ~(name = "width" /\ One(value)) /\ name = "height" /\ One(value)
            \/ /\ ~(name = "width" /\ One(value))
               /\ ~(name = "height" /\ One(value))
               /\ name = "style"
               /\ Truthy(value)
               /\ SearchKeyWsVal(Lower(value.some), "height:", "1px")
    IN  AnyAttr(attrs, Width) /\ AnyAttr(attrs, Height)

RECURSIVE FilterLoop(_, _, _)
\* the loop of _filter_attributes over attrs
FilterLoop(attrs, allowed, allowed_global) ==
    IF attrs = <<>> THEN <<>>
    ELSE LET name == Head(attrs)[1]
             value == Head(attrs)[2]
             rest == FilterLoop(Tail(attrs), allowed, allowed_global)
         IN  IF name = "class" /\ config.remove_classes THEN rest
             ELSE IF name = "id" /\ config.remove_ids THEN rest
             ELSE IF name = "style" /\ config.remove_inline_styles THEN rest
             ELSE IF StartsWith(name, "data-") /\ config.remove_data_attributes THEN rest
             ELSE IF name \in allowed \/ name \in allowed_global
                  THEN <<(<<name, OrEmpty(value)>>)>> \o rest
                  ELSE rest

_filter_attributes(tag, attrs) ==
    IF attrs = <<>> THEN <<>>
    ELSE FilterLoop(attrs, Get(config.keep_attributes, tag), Get(config.keep_attributes, "*"))

\* the href of the first attribute named href, None without one
FirstHref(attrs) ==
    IF \E i \in 1..Len(attrs) : attrs[i][1] = "href"
    THEN attrs[CHOOSE i \in 1..Len(attrs) :
                   /\ attrs[i][1] = "href"
                   /\ \A j \in 1..(i - 1) : attrs[j][1] # "href"][2]
    ELSE None

skip_patterns == { "mailto", "disclosure", "privacy" }

\* href and any(pattern in href.lower() for pattern in skip_patterns)
IsInlineException(href) ==
    Truthy(href) /\ \E pattern \in skip_patterns : Contains(Lower(href.some), pattern)

\* AddLink without the link_set test: every href is appended
AddLink_NoDedup(self, href) ==
    [self EXCEPT !.link_set = @ \cup {href}, !.links = Append(@, href)]

\* the unique-links bookkeeping of an anchor with a non-empty href
AddLink(self, href) ==
    IF href \notin self.link_set
    THEN [self EXCEPT !.link_set = @ \cup {href}, !.links = Append(@, href)]
    ELSE self

\* handle_starttag, the branch of a kept anchor
StartAnchor(self, attrs) ==
    LET href == FirstHref(attrs)
    IN  IF IsInlineException(href)
        THEN [Emit(self, "<a href=\"" \o href.some \o "\">")
                  EXCEPT !.inline_anchor_depth = @ + 1]
        ELSE Emit(IF Truthy(href) THEN AddLink(self, href.some) ELSE self, "[link]")

self_closing_tags == { "img", "br", "hr" }

RECURSIVE AttrStrings(_)
\* ['{}="{}"'.format(k, v) for k, v in filtered_attrs]
AttrStrings(filtered_attrs) ==
    IF filtered_attrs = <<>> THEN <<>>
    ELSE <<Head(filtered_attrs)[1] \o "=\"" \o Head(filtered_attrs)[2] \o "\"">>
             \o AttrStrings(Tail(filtered_attrs))

\* handle_starttag, "Build tag string"
TagString(tag, filtered_attrs) ==
    LET self_closing == tag \in self_closing_tags
        attr_str == Join(" ", AttrStrings(filtered_attrs))
    IN  IF filtered_attrs # <<>>
        THEN IF self_closing THEN "<" \o tag \o " " \o attr_str \o " />"
                             ELSE "<" \o tag \o " " \o attr_str \o ">"
        ELSE IF self_closing THEN "<" \o tag \o " />"
                             ELSE "<" \o tag \o ">"

\* handle_starttag, the branch of a kept tag other than an anchor
StartKept(self, tag, attrs) ==
    LET filtered_attrs == _filter_attributes(tag, attrs)
        is_bold == _has_bold_style(attrs)
        self_closing == tag \in self_closing_tags
        pushed == IF is_bold THEN [self EXCEPT !.bold_tag_stack = Append(@, tag)] ELSE self
        tagged == Emit(pushed, TagString(tag, filtered_attrs))
    IN  IF is_bold /\ ~self_closing THEN Emit(tagged, "<b>") ELSE tagged

\* "Convert b/i to strong/em"
Renamed(tag) ==
    IF config.convert_b_to_strong
    THEN IF tag = "b" THEN "strong" ELSE IF tag = "i" THEN "em" ELSE tag
    ELSE tag

\* StartsTitle capturing at every title start tag
StartsTitle_Always(self, tag) == tag = "title"

\* handle_starttag: tag == "title" and self.title is None
StartsTitle(self, tag) == tag = "title" /\ self.title = None

handle_starttag(self, tag, attrs) ==
    IF StartsTitle(self, tag) THEN [self EXCEPT !.in_title = TRUE]
    ELSE IF self.skip_depth > 0
    THEN IF tag \in config.remove_with_content
         THEN [self EXCEPT !.skip_depth = @ + 1]
         ELSE self
    ELSE IF tag \in config.remove_with_content THEN [self EXCEPT !.skip_depth = 1]
    ELSE IF self.pretext_depth > 0 THEN [self EXCEPT !.pretext_depth = @ + 1]
    ELSE IF _is_hidden_pretext(attrs) THEN [self EXCEPT !.pretext_depth = 1]
    ELSE IF config.convert_tables_to_paragraphs
            /\ tag \in { "table", "thead", "tbody", "tfoot", "tr" }
    THEN self
    ELSE IF config.convert_tables_to_paragraphs /\ tag \in { "td", "th" }
    THEN Emit(self, "<!--CELL_START-->")
    ELSE IF tag = "div" THEN Emit(self, "<!--DIV_START-->")
    ELSE IF tag = "span" /\ config.remove_span_tags THEN self
    ELSE IF tag = "img" /\ _is_tracking_pixel(attrs) THEN self
    ELSE IF Renamed(tag) \notin config.keep_tags THEN self
    ELSE IF Renamed(tag) = "a" THEN StartAnchor(self, attrs)
    ELSE StartKept(self, Renamed(tag), attrs)

handle_startendtag(self, tag, attrs) == handle_starttag(self, tag, attrs)

\* handle_endtag, "Store collected pretext for output at top"
FlushPretext(self) ==
    LET pretext == Strip(StripTrailingNbsp(StripLeadingNbsp(
                       Strip(Join("", self.pretext_content)))))
    IN  [self EXCEPT !.pretexts = IF pretext # "" THEN Append(@, pretext) ELSE @,
                     !.pretext_content = <<>>]

\* the end tag of an anchor closes an inline anchor whether one is open or not
EndAnchor_Unguarded(self) ==
    [Emit(self, "</a>") EXCEPT !.inline_anchor_depth = @ - 1]

\* handle_endtag, the branch of a kept anchor
EndAnchor(self) ==
    IF self.inline_anchor_depth > 0
    THEN [Emit(self, "</a>") EXCEPT !.inline_anchor_depth = @ - 1]
    ELSE Emit(self, "[/link]")

\* handle_endtag, the branch of a kept tag other than an anchor
EndKept(self, tag) ==
    LET closed == IF self.bold_tag_stack # <<>> /\ Last(self.bold_tag_stack) = tag
                  THEN [Emit(self, "</b>") EXCEPT
                            !.bold_tag_stack = SubSeq(@, 1, Len(@) - 1)]
                  ELSE self
    IN  Emit(closed, "</" \o tag \o ">")

handle_endtag(self, tag) ==
    IF tag = "title" /\ self.in_title
    THEN [self EXCEPT !.in_title = FALSE,
                      !.title = Some(Strip(Join("", self.title_content))),
                      !.title_content = <<>>]
    ELSE IF self.skip_depth > 0
    THEN IF tag \in config.remove_with_content
         THEN [self EXCEPT !.skip_depth = @ - 1]
         ELSE self
    ELSE IF self.pretext_depth > 0
    THEN IF self.pretext_depth - 1 = 0
         THEN FlushPretext([self EXCEPT !.pretext_depth = @ - 1])
         ELSE [self EXCEPT !.pretext_depth = @ - 1]
    ELSE IF config.convert_tables_to_paragraphs
            /\ tag \in { "table", "thead", "tbody", "tfoot", "tr" }
    THEN self
    ELSE IF config.convert_tables_to_paragraphs /\ tag \in { "td", "th" }
    THEN Emit(self, "<!--CELL_END-->")
    ELSE IF tag = "div" THEN Emit(self, "<!--DIV_END-->")
    ELSE IF tag = "span" /\ config.remove_span_tags THEN self
    ELSE IF Renamed(tag) \in config.keep_tags
    THEN IF Renamed(tag) = "a" THEN EndAnchor(self) ELSE EndKept(self, Renamed(tag))
    ELSE self

handle_data(self, data) ==
    IF self.in_title THEN [self EXCEPT !.title_content = Append(@, data)]
    ELSE IF self.skip_depth > 0 THEN self
    ELSE IF self.pretext_depth > 0 THEN [self EXCEPT !.pretext_content = Append(@, data)]
    ELSE Emit(self, data)

handle_entityref(self, name) ==
    IF self.skip_depth > 0 THEN self
    ELSE IF self.pretext_depth > 0
    THEN [self EXCEPT !.pretext_content = Append(@, "&" \o name \o ";")]
    ELSE Emit(self, "&" \o name \o ";")

handle_charref(self, name) ==
    IF self.skip_depth > 0 THEN self
    ELSE IF self.pretext_depth > 0
    THEN [self EXCEPT !.pretext_content = Append(@, "&#" \o name \o ";")]
    ELSE Emit(self, "&#" \o name \o ";")

handle_comment(self, data) ==
    IF self.skip_depth > 0 THEN self
    ELSE IF ~config.remove_comments THEN Emit(self, "<!--" \o data \o "-->")
    ELSE self

\* get_output
get_output(self) == Join("", self.output)

(***************************************************************************)
(* The documents: what the tokenizer (html.parser.HTMLParser.feed) reads   *)
(* and the events it delivers.  An event is a start tag, a self-closing    *)
(* tag, an end tag, text, an entity reference, a character reference or a  *)
(* comment.  A start tag of a void element stands alone unless the         *)
(* document writes an explicit end tag for it.  After the start tag of a   *)
(* script or style element the tokenizer reads raw text: it holds the text *)
(* back and delivers it as one text event when the element's end tag       *)
(* arrives.                                                                *)
(***************************************************************************)
VoidTags == { "br", "hr", "img", "input" }

\* HTMLParser.CDATA_CONTENT_ELEMENTS
CDATA_CONTENT_ELEMENTS == { "script", "style" }

Event(kind, tag, attrs, data) == [kind |-> kind, tag |-> tag, attrs |-> attrs, data |-> data]

RECURSIVE RawAttrs(_)
RawAttrs(attrs) ==
    IF attrs = <<>> THEN ""
    ELSE (IF Head(attrs)[2] = None
          THEN " " \o Head(attrs)[1]
          ELSE " " \o Head(attrs)[1] \o "=\"" \o Head(attrs)[2].some \o "\"")
         \o RawAttrs(Tail(attrs))

\* the source text of an event
Raw(e) ==
    CASE e.kind = "starttag" -> "<" \o e.tag \o RawAttrs(e.attrs) \o ">"
      [] e.kind = "startendtag" -> "<" \o e.tag \o RawAttrs(e.attrs) \o "/>"
      [] e.kind = "endtag" -> "</" \o e.tag \o ">"
      [] e.kind = "data" -> e.data
      [] e.kind = "entityref" -> "&" \o e.data \o ";"
      [] e.kind = "charref" -> "&#" \o e.data \o ";"
      [] e.kind = "comment" -> "<!--" \o e.data \o "-->"

Attr(name, value) == <<name, Some(value)>>

BareAttr(name) == <<name, None>>

Alphabet(start, selfclosed, paired, stray, data, entityref, charref, comment, cdata) ==
    [ start |-> start, selfclosed |-> selfclosed, paired |-> paired, stray |-> stray,
      data |-> data, entityref |-> entityref, charref |-> charref, comment |-> comment,
      cdata |-> cdata ]

\* removable regions: nested, of two names, void, self-closing
RemovalDocuments ==
    [ config |-> CONFIG,
      alphabet |-> Alphabet(
        { <<"script", <<>> >>, <<"nav", <<>> >>, <<"input", <<Attr("type", "text")>> >>,
          <<"p", <<>> >> },
        { <<"nav", <<>> >> },
        {},
        { "script" },
        { "x" }, {}, {}, { "c" }, { "<p>" }) ]

\* hidden pretext and title capture, comments kept
PretextDocuments ==
    [ config |-> [CONFIG EXCEPT !.remove_comments = FALSE],
      alphabet |-> Alphabet(
        { <<"span", <<Attr("style", "Display:None")>> >>, <<"br", <<>> >>,
          <<"title", <<>> >> },
        { <<"br", <<>> >> },
        {},
        {},
        { "x", " " }, { "nbsp" }, { "38" }, { "c" }, {}) ]

\* anchors: repeated, empty, missing and inline-exception hrefs
AnchorDocuments ==
    [ config |-> [CONFIG EXCEPT !.keep_attributes = [a |-> { "title" }, img |-> { "src" }]],
      alphabet |-> Alphabet(
        { <<"a", <<Attr("class", "c"), Attr("href", "http://x")>> >>,
          <<"a", <<Attr("href", "http://y"), Attr("href", "http://x")>> >>,
          <<"a", <<Attr("href", "MAILTO:j")>> >>,
          <<"a", <<Attr("href", "")>> >>,
          <<"a", <<BareAttr("href")>> >>,
          <<"script", <<>> >> },
        {},
        {},
        { "a" },
        { "t" }, {}, {}, {}, { "<a href=\"http://z\">" }) ]

\* bold styling and self-closing tags, b not kept
BoldDocuments ==
    [ config |-> [CONFIG EXCEPT !.keep_tags = @ \ { "b" }],
      alphabet |-> Alphabet(
        { <<"blockquote", <<Attr("style", "font-weight: bold")>> >>,
          <<"blockquote", <<>> >>,
          <<"br", <<Attr("style", "FONT-WEIGHT:BOLD")>> >>,
          <<"img", <<Attr("width", "1"), Attr("style", "height:  1px")>> >> },
        { <<"br", <<>> >> },
        { "br", "img" },
        {},
        { "x" }, {}, {}, {}, {}) ]

Scenarios == { RemovalDocuments, PretextDocuments, AnchorDocuments, BoldDocuments }

\* what the document's open-element stack remembers of a start tag
Opened(tag, attrs, before, after, read) ==
    [ tag |-> tag,
      attrs |-> attrs,
      skip |-> before.skip_depth = 0 /\ after.skip_depth = 1,
      hidden |-> before.pretext_depth = 0 /\ after.pretext_depth = 1,
      bold |-> Len(after.output) > Len(before.output) /\ Last(after.output) = "<b>",
      at |-> Len(before.output),
      wrote |-> SubSeq(after.output, Len(before.output) + 1, Len(after.output)),
      read |-> read ]

(***************************************************************************)
(* clean_html.                                                             *)
(***************************************************************************)
Init ==
    /\ \E s \in Scenarios : config = s.config /\ alphabet = s.alphabet
    /\ html = ""
    /\ tokens = <<>>
    /\ open = <<>>
    /\ wellNested = TRUE
    /\ parser = NewParser
    /\ pc = "feed"
    /\ result = None
    /\ errors = <<>>
    /\ view = None

Feeding == pc = "feed" /\ Len(tokens) < MaxTokens

\* the tokenizer is reading the raw text of a script or style element
InCData == open # <<>> /\ Last(open).tag \in CDATA_CONTENT_ELEMENTS

\* the raw text read since that element's start tag, not yet delivered
Held == IF InCData THEN Suffix(html, Last(open).read + 1) ELSE ""

\* the tokenizer is reading markup and text
Scanning == Feeding /\ ~InCData

\* the tokenizer hands event e to its handler without moving past it
Deliver_Rereads(e) ==
    /\ html' = html
    /\ tokens' = tokens
    /\ UNCHANGED <<config, alphabet, pc, result, errors, view>>

\* the tokenizer delivers event e, read from the text Raw(e)
Deliver(e) ==
    /\ html' = html \o Raw(e)
    /\ tokens' = Append(tokens, e)
    /\ UNCHANGED <<config, alphabet, pc, result, errors, view>>

FeedStartTag ==
    /\ Scanning
    /\ \E t \in alphabet.start :
       \E paired \in (IF t[1] \in VoidTags
                      THEN (IF t[1] \in alphabet.paired THEN { TRUE, FALSE } ELSE { FALSE })
                      ELSE { TRUE }) :
          /\ parser' = handle_starttag(parser, t[1], t[2])
          /\ open' = IF paired
                     THEN Append(open, Opened(t[1], t[2], parser, parser',
                                              Len(html) + Len(Raw(Event("starttag", t[1], t[2], "")))))
                     ELSE open
          /\ Deliver(Event("starttag", t[1], t[2], ""))
    /\ UNCHANGED wellNested

FeedStartEndTag ==
    /\ Scanning
    /\ \E t \in alphabet.selfclosed :
          /\ parser' = handle_startendtag(parser, t[1], t[2])
          /\ Deliver(Event("startendtag", t[1], t[2], ""))
    /\ UNCHANGED <<open, wellNested>>

\* the end tag of the innermost open element; the raw text held back for a
\* script or style element is delivered first, as one text event
FeedEndTag ==
    /\ Feeding
    /\ open # <<>>
    /\ LET end == Event("endtag", Last(open).tag, <<>>, "")
           text == Event("data", "", <<>>, Held)
       IN  /\ parser' = handle_endtag(IF Held = "" THEN parser
                                      ELSE handle_data(parser, Held), end.tag)
           /\ tokens' = tokens \o (IF Held = "" THEN <<>> ELSE <<text>>) \o <<end>>
           /\ html' = html \o Raw(end)
    /\ open' = SubSeq(open, 1, Len(open) - 1)
    /\ UNCHANGED <<config, alphabet, pc, result, errors, wellNested, view>>

\* raw text inside a script or style element: read, held back, not delivered
FeedCData ==
    /\ Feeding
    /\ InCData
    /\ Held = ""
    /\ \E text \in alphabet.cdata : html' = html \o text
    /\ UNCHANGED <<config, tokens, open, wellNested, alphabet, parser, pc, result, errors, view>>

\* an end tag that closes no open element
FeedStrayEndTag ==
    /\ Scanning
    /\ \E tag \in alphabet.stray :
          /\ parser' = handle_endtag(parser, tag)
          /\ Deliver(Event("endtag", tag, <<>>, ""))
    /\ wellNested' = FALSE
    /\ UNCHANGED open

\* a run of text is delivered as one event
FeedData ==
    /\ Scanning
    /\ IF tokens = <<>> THEN TRUE ELSE Last(tokens).kind # "data"
    /\ \E data \in alphabet.data :
          /\ parser' = handle_data(parser, data)
          /\ Deliver(Event("data", "", <<>>, data))
    /\ UNCHANGED <<open, wellNested>>

FeedEntityRef ==
    /\ Scanning
    /\ \E name \in alphabet.entityref :
          /\ parser' = handle_entityref(parser, name)
          /\ Deliver(Event("entityref", "", <<>>, name))
    /\ UNCHANGED <<open, wellNested>>

FeedCharRef ==
    /\ Scanning
    /\ \E name \in alphabet.charref :
          /\ parser' = handle_charref(parser, name)
          /\ Deliver(Event("charref", "", <<>>, name))
    /\ UNCHANGED <<open, wellNested>>

FeedComment ==
    /\ Scanning
    /\ \E data \in alphabet.comment :
          /\ parser' = handle_comment(parser, data)
          /\ Deliver(Event("comment", "", <<>>, data))
    /\ UNCHANGED <<open, wellNested>>

\* a marked section with an unknown keyword: the tokenizer raises on it
Malformed == "<![x]>"

\* Fallback returning what the parser had rewritten before the failure
Fallback_Partial(text, self) == get_output(self)

\* clean_html: what it returns when parser.feed raises
Fallback(text, self) == text

\* parser.feed raises: the except branch of clean_html
ParseError ==
    /\ pc = "feed"
    /\ ~InCData
    /\ html' = html \o Malformed
    /\ errors' = Append(errors, "HTML Cleaner: Parse error - "
                                  \o "unknown status keyword 'x' in marked section")
    /\ result' = Some(Fallback(html', parser))
    /\ pc' = "failed"
    /\ UNCHANGED <<config, tokens, open, wellNested, alphabet, parser, view>>

\* Header with the links block before the pretexts block
Header_LinksFirst(title, pretexts, links) ==
    LET PretextLines == [i \in 1..Len(pretexts) |-> "Pretext: " \o pretexts[i]]
        header_parts ==
            (IF Truthy(title) THEN <<"Title: " \o title.some>> ELSE <<>>)
            \o (IF links # <<>> THEN <<"Links:\n" \o Join("\n", links)>> ELSE <<>>)
            \o (IF pretexts # <<>> THEN <<Join("\n", PretextLines)>> ELSE <<>>)
    IN  Join("\n\n", header_parts)

\* clean_html, "Build header with title, pretexts and links"
Header(title, pretexts, links) ==
    LET PretextLines == [i \in 1..Len(pretexts) |-> "Pretext: " \o pretexts[i]]
        header_parts ==
            (IF Truthy(title) THEN <<"Title: " \o title.some>> ELSE <<>>)
            \o (IF pretexts # <<>> THEN <<Join("\n", PretextLines)>> ELSE <<>>)
            \o (IF links # <<>> THEN <<"Links:\n" \o Join("\n", links)>> ELSE <<>>)
    IN  Join("\n\n", header_parts)

(***************************************************************************)
(* The regular expressions of the text normalizer.  Each re.sub is a       *)
(* left-to-right scan: where the pattern matches, the replacement is       *)
(* written and the scan resumes after the match; elsewhere one character   *)
(* is copied.                                                              *)
(***************************************************************************)
\* v has been computed: the stages of a pipeline are evaluated one after the
\* other, each on the finished text of the one before
Done(v) == v = v

\* s[a-1:b]
Slice(s, a, b) == IF a > b THEN "" ELSE SubSeq(s, a, b)

\* s.find(p, i-1) + 1: the first position >= i where p occurs, 0 without one
FindFrom(s, p, i) ==
    LET hits == { j \in i..(Len(s) - Len(p) + 1) : SubSeq(s, j, j + Len(p) - 1) = p }
    IN  IF hits = {} THEN 0 ELSE CHOOSE j \in hits : \A h \in hits : j <= h

\* the first position >= i of a whitespace character, 0 without one
FindSpace(s, i) ==
    LET hits == { j \in i..Len(s) : IsSpace(SubSeq(s, j, j)) }
    IN  IF hits = {} THEN 0 ELSE CHOOSE j \in hits : \A h \in hits : j <= h

RECURSIVE WsStart(_, _)
\* the first position of the whitespace run that ends right before position i
WsStart(s, i) == IF i > 1 /\ IsSpace(SubSeq(s, i - 1, i - 1)) THEN WsStart(s, i - 1) ELSE i

RECURSIVE WsEnd(_, _)
\* the position after \s* matched from position i
WsEnd(s, i) == IF i <= Len(s) /\ IsSpace(SubSeq(s, i, i)) THEN WsEnd(s, i + 1) ELSE i

RECURSIVE BlankEnd(_, _)
\* the position after [ \t]* matched from position i
BlankEnd(s, i) ==
    IF i <= Len(s) /\ SubSeq(s, i, i) \in { " ", "\t" } THEN BlankEnd(s, i + 1) ELSE i

RECURSIVE RunEnd(_, _, _)
\* the position after c* matched from position i
RunEnd(s, c, i) == IF i <= Len(s) /\ SubSeq(s, i, i) = c THEN RunEnd(s, c, i + 1) ELSE i

RECURSIVE ReplaceAll(_, _, _)
\* re.sub(p, r, s) for a literal p
ReplaceAll(s, p, r) ==
    LET k == FindFrom(s, p, 1)
    IN  IF k = 0 THEN s
        ELSE Slice(s, 1, k - 1) \o r \o ReplaceAll(Suffix(s, k + Len(p)), p, r)

CELL_START == "<!--CELL_START-->"
CELL_END == "<!--CELL_END-->"
DIV_START == "<!--DIV_START-->"
DIV_END == "<!--DIV_END-->"

\* convert_cells_to_paragraphs.replace_cell
replace_cell(group1) ==
    LET content == Strip(group1)
    IN  IF content = "" THEN ""
        ELSE IF /\ Len(content) >= 3
                /\ Lower(SubSeq(content, 1, 2)) = "<p"
                /\ (IsSpace(SubSeq(content, 3, 3)) \/ SubSeq(content, 3, 3) = ">")
        THEN content
        ELSE "<p>" \o content \o "</p>"

\* the lambda of "Convert div markers to paragraphs"
replace_div(group1) ==
    IF Strip(group1) # "" THEN "<p>" \o Strip(group1) \o "</p>" ELSE ""

RECURSIVE SubCells(_)
\* re.sub(r'<!--CELL_START-->(.*?)<!--CELL_END-->', replace_cell, s, flags=re.DOTALL)
SubCells(s) ==
    LET k == FindFrom(s, CELL_START, 1)
        e == FindFrom(s, CELL_END, k + Len(CELL_START))
    IN  IF k = 0 \/ e = 0 THEN s
        ELSE Slice(s, 1, k - 1)
             \o replace_cell(Slice(s, k + Len(CELL_START), e - 1))
             \o SubCells(Suffix(s, e + Len(CELL_END)))

RECURSIVE SubDivs(_)
\* re.sub(r'<!--DIV_START-->(.*?)<!--DIV_END-->', lambda, s, flags=re.DOTALL)
SubDivs(s) ==
    LET k == FindFrom(s, DIV_START, 1)
        e == FindFrom(s, DIV_END, k + Len(DIV_START))
    IN  IF k = 0 \/ e = 0 THEN s
        ELSE Slice(s, 1, k - 1)
             \o replace_div(Slice(s, k + Len(DIV_START), e - 1))
             \o SubDivs(Suffix(s, e + Len(DIV_END)))

convert_cells_to_paragraphs(text) ==
    LET cells == SubCells(text)
        starts == ReplaceAll(cells, CELL_START, "")
    IN  IF Done(cells) /\ Done(starts) THEN ReplaceAll(starts, CELL_END, "") ELSE text

RECURSIVE NbspUnits(_, _, _)
\* <<position after, number of>> the units (&nbsp;\s*) matched from position i
NbspUnits(s, i, n) ==
    IF StartsAt(s, i, NBSP) THEN NbspUnits(s, WsEnd(s, i + Len(NBSP)), n + 1) ELSE <<i, n>>

RECURSIVE SubNbspPairs(_)
\* re.sub(r'(&nbsp;\s*){2,}', ' ', s)
SubNbspPairs(s) ==
    LET k == FindFrom(s, NBSP, 1)
        run == NbspUnits(s, k, 0)
    IN  IF k = 0 THEN s
        ELSE IF run[2] >= 2
        THEN Slice(s, 1, k - 1) \o " " \o SubNbspPairs(Suffix(s, run[1]))
        ELSE Slice(s, 1, k) \o SubNbspPairs(Suffix(s, k + 1))

RECURSIVE SubNbspRuns(_)
\* re.sub(r'(\s*&nbsp;\s*)+', ' ', s): a match starts with the whitespace in
\* front of an &nbsp;
SubNbspRuns(s) ==
    LET k == FindFrom(s, NBSP, 1)
    IN  IF k = 0 THEN s
        ELSE Slice(s, 1, WsStart(s, k) - 1) \o " "
             \o SubNbspRuns(Suffix(s, NbspUnits(s, k, 0)[1]))

\* the position after a match of <(\w+)[^>]*>\s*</\1> at position i, 0 without one
EmptyTagEnd(s, i) ==
    LET w == WordLen(Suffix(s, i + 1))
        gt == FindFrom(s, ">", i + 1)
        e == WsEnd(s, gt + 1)
        cw == WordLen(Suffix(s, e + 2))
    IN  IF /\ w > 0
           /\ gt > 0
           /\ StartsAt(s, e, "</")
           /\ cw >= 1
           /\ cw <= w
           /\ Slice(s, e + 2, e + 1 + cw) = Slice(s, i + 1, i + cw)
           /\ StartsAt(s, e + 2 + cw, ">")
        THEN e + 3 + cw
        ELSE 0

RECURSIVE SubEmptyTags(_)
\* re.sub(r'<(\w+)[^>]*>\s*</\1>', '', s)
SubEmptyTags(s) ==
    LET k == FindFrom(s, "<", 1)
        e == EmptyTagEnd(s, k)
    IN  IF k = 0 THEN s
        ELSE IF e > 0 THEN Slice(s, 1, k - 1) \o SubEmptyTags(Suffix(s, e))
        ELSE Slice(s, 1, k) \o SubEmptyTags(Suffix(s, k + 1))

RECURSIVE LastNewline(_, _, _)
\* the position of the last newline in s[from..to], 0 without one
LastNewline(s, from, to) ==
    IF to < from THEN 0
    ELSE IF SubSeq(s, to, to) = "\n" THEN to
    ELSE LastNewline(s, from, to - 1)

NewlinesIn(s, from, to) == Cardinality({ j \in from..to : SubSeq(s, j, j) = "\n" })

RECURSIVE SubBlankLines(_)
\* re.sub(r'\n\s*\n\s*\n+', '\n\n', s)
SubBlankLines(s) ==
    LET k == FindFrom(s, "\n", 1)
        e == WsEnd(s, k)
    IN  IF k = 0 THEN s
        ELSE IF NewlinesIn(s, k, e - 1) >= 3
        THEN Slice(s, 1, k - 1) \o "\n\n" \o SubBlankLines(Suffix(s, LastNewline(s, k, e - 1) + 1))
        ELSE Slice(s, 1, k) \o SubBlankLines(Suffix(s, k + 1))

\* p|div|h[1-6]|tr|li|ul|ol|table|blockquote
BreakAfterTags ==
    { "p", "div", "h1", "h2", "h3", "h4", "h5", "h6", "tr", "li", "ul", "ol", "table",
      "blockquote" }

\* block_tags
block_tags == BreakAfterTags \cup { "br", "hr", "img" }

\* the length of a match of </(?:names)> at position i, 0 without one
CloseTagAt(s, i, names) ==
    IF \E a \in names : StartsAt(s, i, "</" \o a \o ">")
    THEN Len(CHOOSE a \in names : StartsAt(s, i, "</" \o a \o ">")) + 3
    ELSE 0

RECURSIVE SubBreakAfterBlocks(_)
\* re.sub(r'(</(?:p|div|h[1-6]|tr|li|ul|ol|table|blockquote)>)', r'\1\n', s)
SubBreakAfterBlocks(s) ==
    LET k == FindFrom(s, "</", 1)
        n == CloseTagAt(s, k, BreakAfterTags)
    IN  IF k = 0 THEN s
        ELSE IF n > 0
        THEN Slice(s, 1, k + n - 1) \o "\n" \o SubBreakAfterBlocks(Suffix(s, k + n))
        ELSE Slice(s, 1, k) \o SubBreakAfterBlocks(Suffix(s, k + 1))

RECURSIVE SubWhitespace(_)
\* re.sub(r'\s+', ' ', s)
SubWhitespace(s) ==
    LET k == FindSpace(s, 1)
    IN  IF k = 0 THEN s
        ELSE Slice(s, 1, k - 1) \o " " \o SubWhitespace(Suffix(s, WsEnd(s, k)))

RECURSIVE SubSpaces(_)
\* re.sub(r' +', ' ', s)
SubSpaces(s) ==
    LET k == FindFrom(s, " ", 1)
    IN  IF k = 0 THEN s
        ELSE Slice(s, 1, k) \o SubSpaces(Suffix(s, RunEnd(s, " ", k)))

\* the position after the gap matched from position i: [ \t]+ or, when
\* any_space, \s+
GapEnd(s, i, any_space) == IF any_space THEN WsEnd(s, i) ELSE BlankEnd(s, i)

RECURSIVE SubGapAfterBlockClose(_, _)
\* re.sub(r'(</' + block_tags + r'>)[ \t]+(<)', r'\1\2', s), \s+ when any_space
SubGapAfterBlockClose(s, any_space) ==
    LET k == FindFrom(s, "</", 1)
        n == CloseTagAt(s, k, block_tags)
        e == GapEnd(s, k + n, any_space)
    IN  IF k = 0 THEN s
        ELSE IF n > 0 /\ e > k + n /\ StartsAt(s, e, "<")
        THEN Slice(s, 1, k + n - 1) \o "<" \o SubGapAfterBlockClose(Suffix(s, e + 1), any_space)
        ELSE Slice(s, 1, k) \o SubGapAfterBlockClose(Suffix(s, k + 1), any_space)

\* the length of a match of </?block_tags at position i, 0 without one
BlockOpenAt(s, i) ==
    LET Hit(a) == StartsAt(s, i, "<" \o a) \/ StartsAt(s, i, "</" \o a)
    IN  IF \E a \in block_tags : Hit(a)
        THEN LET a == CHOOSE x \in block_tags : Hit(x)
             IN  IF StartsAt(s, i, "</") THEN Len(a) + 2 ELSE Len(a) + 1
        ELSE 0

RECURSIVE SubGapBeforeBlock(_, _)
\* re.sub(r'(>)[ \t]+(</?' + block_tags + r')', r'\1\2', s), \s+ when any_space
SubGapBeforeBlock(s, any_space) ==
    LET k == FindFrom(s, ">", 1)
        e == GapEnd(s, k + 1, any_space)
    IN  IF k = 0 THEN s
        ELSE IF e > k + 1 /\ BlockOpenAt(s, e) > 0
        THEN Slice(s, 1, k) \o "<" \o SubGapBeforeBlock(Suffix(s, e + 1), any_space)
        ELSE Slice(s, 1, k) \o SubGapBeforeBlock(Suffix(s, k + 1), any_space)

RECURSIVE StripLines(_)
\* '\n'.join(line.strip() for line in s.split('\n'))
StripLines(s) ==
    LET k == FindFrom(s, "\n", 1)
    IN  IF k = 0 THEN Strip(s)
        ELSE Strip(Slice(s, 1, k - 1)) \o "\n" \o StripLines(Suffix(s, k + 1))

RECURSIVE SubNewlineRuns(_)
\* re.sub(r'\n{3,}', '\n\n', s)
SubNewlineRuns(s) ==
    LET k == FindFrom(s, "\n", 1)
        e == RunEnd(s, "\n", k)
    IN  IF k = 0 THEN s
        ELSE IF e - k >= 3 THEN Slice(s, 1, k - 1) \o "\n\n" \o SubNewlineRuns(Suffix(s, e))
        ELSE Slice(s, 1, e - 1) \o SubNewlineRuns(Suffix(s, e))

RECURSIVE SubSpaceAfterP(_)
\* re.sub(r'<p>\s+', '<p>', s)
SubSpaceAfterP(s) ==
    LET k == FindFrom(s, "<p>", 1)
    IN  IF k = 0 THEN s
        ELSE Slice(s, 1, k + 2) \o SubSpaceAfterP(Suffix(s, WsEnd(s, k + 3)))

RECURSIVE SubSpaceBeforeEndP(_)
\* re.sub(r'\s+</p>', '</p>', s): a match is the whitespace in front of a </p>
SubSpaceBeforeEndP(s) ==
    LET k == FindFrom(s, "</p>", 1)
    IN  IF k = 0 THEN s
        ELSE Slice(s, 1, WsStart(s, k) - 1) \o "</p>" \o SubSpaceBeforeEndP(Suffix(s, k + 4))

RECURSIVE SubEmptyP(_)
\* re.sub(r'<p>\s*</p>\n*', '', s)
SubEmptyP(s) ==
    LET k == FindFrom(s, "<p>", 1)
        e == WsEnd(s, k + 3)
    IN  IF k = 0 THEN s
        ELSE IF StartsAt(s, e, "</p>")
        THEN Slice(s, 1, k - 1) \o SubEmptyP(Suffix(s, RunEnd(s, "\n", e + 4)))
        ELSE Slice(s, 1, k) \o SubEmptyP(Suffix(s, k + 1))

RECURSIVE NbspGroupsEnd(_, _)
\* the position after (\s*&nbsp;\s*)* matched from position i
NbspGroupsEnd(s, i) ==
    IF StartsAt(s, WsEnd(s, i), NBSP)
    THEN NbspGroupsEnd(s, WsEnd(s, WsEnd(s, i) + Len(NBSP)))
    ELSE i

RECURSIVE SubNbspP(_)
\* re.sub(r'<p>(\s*&nbsp;\s*)*</p>\n*', '', s)
SubNbspP(s) ==
    LET k == FindFrom(s, "<p>", 1)
        e == NbspGroupsEnd(s, k + 3)
    IN  IF k = 0 THEN s
        ELSE IF StartsAt(s, e, "</p>")
        THEN Slice(s, 1, k - 1) \o SubNbspP(Suffix(s, RunEnd(s, "\n", e + 4)))
        ELSE Slice(s, 1, k) \o SubNbspP(Suffix(s, k + 1))

\* re.sub(r'^<p>\s*\n', '', s)
SubDanglingP(s) ==
    IF StartsWith(s, "<p>") /\ LastNewline(s, 4, WsEnd(s, 4) - 1) > 0
    THEN Suffix(s, LastNewline(s, 4, WsEnd(s, 4) - 1) + 1)
    ELSE s

\* clean_html, "Remove successive &nbsp;"
CollapseNbsp(text, cfg) ==
    LET pairs == SubNbspPairs(text)
    IN  IF cfg.remove_successive_nbsp
        THEN IF Done(pairs) THEN SubNbspRuns(pairs) ELSE text
        ELSE text

\* the number of passes of "Remove empty tags"
EmptyTagPasses == 3

RECURSIVE EmptyTagLoop(_, _)
EmptyTagLoop(text, passes) ==
    LET pass == SubEmptyTags(text)
    IN  IF passes = 0 THEN text
        ELSE IF Done(pass) THEN EmptyTagLoop(pass, passes - 1) ELSE text

\* clean_html, "Remove empty tags (multiple passes for nested empties)"
RemoveEmptyTags(text, cfg) ==
    IF cfg.remove_empty_tags THEN EmptyTagLoop(text, EmptyTagPasses) ELSE text

\* clean_html, "Clean up whitespace"
ShapeWhitespace(text, cfg) ==
    LET lines == SubBlankLines(text)
    IN  IF cfg.preserve_line_breaks
        THEN IF Done(lines) THEN SubBreakAfterBlocks(lines) ELSE text
        ELSE SubWhitespace(text)

\* clean_html, "Clean up extra spaces"
TightenBlocks(text, cfg) ==
    LET spaces == SubSpaces(text)
        after == SubGapAfterBlockClose(spaces, ~cfg.preserve_line_breaks)
    IN  IF Done(spaces) /\ Done(after)
        THEN SubGapBeforeBlock(after, ~cfg.preserve_line_breaks)
        ELSE text

\* clean_html, "Convert div markers to paragraphs"
ConvertDivs(text) ==
    LET divs == SubDivs(text)
        starts == ReplaceAll(divs, DIV_START, "")
    IN  IF Done(divs) /\ Done(starts) THEN ReplaceAll(starts, DIV_END, "") ELSE text

\* clean_html, "Final cleanup pass"
FinalCleanup(text) ==
    LET lines == StripLines(text)
        blank == SubNewlineRuns(lines)
        opened == SubSpaceAfterP(blank)
        closed == SubSpaceBeforeEndP(opened)
        empty == SubEmptyP(closed)
        nbsp == SubNbspP(empty)
        dangling == SubDanglingP(nbsp)
    IN  IF /\ Done(lines)
           /\ Done(blank)
           /\ Done(opened)
           /\ Done(closed)
           /\ Done(empty)
           /\ Done(nbsp)
           /\ Done(dangling)
        THEN Strip(dangling)
        ELSE text

\* clean_html, from "Convert table cells to paragraphs" to the last result.strip()
Normalize(text, cfg) ==
    LET cells == IF cfg.convert_tables_to_paragraphs
                 THEN convert_cells_to_paragraphs(text)
                 ELSE text
        nbsp == CollapseNbsp(cells, cfg)
        empty == RemoveEmptyTags(nbsp, cfg)
        shaped == ShapeWhitespace(empty, cfg)
        tight == TightenBlocks(shaped, cfg)
        trimmed == Strip(tight)
        divs == ConvertDivs(trimmed)
    IN  IF /\ Done(cells)
           /\ Done(nbsp)
           /\ Done(empty)
           /\ Done(shaped)
           /\ Done(tight)
           /\ Done(trimmed)
           /\ Done(divs)
        THEN FinalCleanup(divs)
        ELSE text

\* clean_html after parser.feed returned
Cleaned(self) ==
    LET text == get_output(self)
        body == Normalize(text, config)
        header == Header(self.title, self.pretexts, self.links)
    IN  IF Done(text) /\ Done(body) /\ header # "" THEN header \o "\n\n\n" \o body ELSE body

\* parser.feed returns at the end of the text: the rest of clean_html
Finish ==
    /\ pc = "feed"
    /\ result' = Some(Cleaned(parser))
    /\ pc' = "done"
    /\ UNCHANGED <<config, html, tokens, open, wellNested, alphabet, parser, errors, view>>

Next ==
    \/ FeedStartTag
    \/ FeedStartEndTag
    \/ FeedEndTag
    \/ FeedCData
    \/ FeedStrayEndTag
    \/ FeedData
    \/ FeedEntityRef
    \/ FeedCharRef
    \/ FeedComment
    \/ ParseError
    \/ Finish

Spec == Init /\ [][Next]_vars

(***************************************************************************)
(* clean_html on one whole document: the tokenizer delivers the events of  *)
(* the document in order, and the rest of clean_html runs when the text is *)
(* exhausted.                                                              *)
(***************************************************************************)
StartTag(tag, attrs) == Event("starttag", tag, attrs, "")

EndTag(tag) == Event("endtag", tag, <<>>, "")

Text(data) == Event("data", "", <<>>, data)

\* <tag>content</tag>
Element(tag, attrs, content) == <<StartTag(tag, attrs)>> \o content \o <<EndTag(tag)>>

RECURSIVE Flatten(_)
Flatten(seqs) == IF seqs = <<>> THEN <<>> ELSE Head(seqs) \o Flatten(Tail(seqs))

\* the handler the tokenizer calls for event e
Dispatch(self, e) ==
    CASE e.kind = "starttag" -> handle_starttag(self, e.tag, e.attrs)
      [] e.kind = "startendtag" -> handle_startendtag(self, e.tag, e.attrs)
      [] e.kind = "endtag" -> handle_endtag(self, e.tag)
      [] e.kind = "data" -> handle_data(self, e.data)
      [] e.kind = "entityref" -> handle_entityref(self, e.data)
      [] e.kind = "charref" -> handle_charref(self, e.data)
      [] e.kind = "comment" -> handle_comment(self, e.data)

\* the documents of table cells: up to MaxCells cells in one row of a table
CellContents ==
    { <<>>, <<Text(" ")>>, <<Text("A")>>, Element("p", <<>>, <<Text("A")>>),
      Element("div", <<>>, <<Text("B")>>) }

RowsOf(n) == [1..n -> CellContents]

TableParts == { <<"thead", "th">>, <<"tbody", "td">>, <<"tfoot", "td">> }

Table(part, cells) ==
    Element("table", <<>>,
      Element(part[1], <<>>,
        Element("tr", <<>>,
          Flatten([i \in 1..Len(cells) |-> Element(part[2], <<>>, cells[i])]))))

TableDocuments ==
    { [config |-> CONFIG, document |-> Table(part, cells)] :
        part \in TableParts, cells \in UNION { RowsOf(n) : n \in 1..MaxCells } }

Digit(i) == SubSeq("123456789", i, i)

\* the documents with a header: a title or none, hidden elements, anchors (the
\* last one repeating the first href when there are several) and a body text
TitleElements ==
    { <<>>, Element("title", <<>>, <<Text("T")>>), Element("title", <<>>, <<Text(" ")>>) }

Hidden(i) == Element("span", <<Attr("style", "display:none")>>, <<Text("s" \o Digit(i))>>)

Anchor(i) == Element("a", <<Attr("href", "http://l" \o Digit(i))>>, <<Text("t")>>)

Anchors(n) == Flatten([i \in 1..n |-> Anchor(i)]) \o (IF n > 1 THEN Anchor(1) ELSE <<>>)

HeaderDocuments ==
    { [config |-> CONFIG,
       document |-> title \o Flatten([i \in 1..hidden |-> Hidden(i)]) \o Anchors(anchors) \o body] :
        title \in TitleElements, hidden \in 0..MaxParts, anchors \in 0..MaxParts,
        body \in { <<>>, Element("p", <<>>, <<Text("x")>>) } }

\* the documents with two title elements
TitleDocuments ==
    { [config |-> CONFIG,
       document |-> Element("title", <<>>, first) \o between
                    \o Element("title", <<>>, <<Text("B")>>) \o after] :
        first \in { <<>>, <<Text("A")>> },
        between \in { <<>>, Element("p", <<>>, <<Text("x")>>) },
        after \in { <<>>, <<Text("y")>> } }

\* the documents that are one chain of nested elements around blank text
ChainTags == { "p", "strong", "s" }

RECURSIVE Chain(_, _)
Chain(tags, content) ==
    IF tags = <<>> THEN content
    ELSE Element(Head(tags), <<>>, Chain(Tail(tags), content))

\* an inline-exception anchor, around nothing
MailAnchor(href) == Element("a", <<Attr("href", href)>>, <<>>)

ChainDocuments ==
    { [config |-> CONFIG, document |-> Chain(tags, content)] :
        tags \in UNION { [1..d -> ChainTags] : d \in 1..MaxDepth },
        content \in { <<>>, <<Text(" ")>>, <<Text("\n")>> } }
    \cup
    { [config |-> CONFIG, document |-> Chain(tags, MailAnchor(href))] :
        tags \in { <<>>, <<"p">> }, href \in { "mailto:j", "mailto:a>b" } }

\* the documents that are fragments: one or two events of any kind, read
\* outside every region or inside a removal region that "<nav>" opened and
\* nothing closes (two texts in a row are one event, so they are left out)
FragmentEvents ==
    { StartTag("nav", <<>>), EndTag("nav"),
      StartTag("title", <<>>), EndTag("title"),
      StartTag("span", <<Attr("style", "display:none")>>), EndTag("span"),
      StartTag("a", <<Attr("href", "http://x")>>), EndTag("a"),
      StartTag("b", <<Attr("style", "font-weight:bold")>>), EndTag("b"),
      StartTag("div", <<>>), EndTag("div"),
      StartTag("td", <<>>), EndTag("td"),
      Text("x"),
      Event("entityref", "", <<>>, "amp"),
      Event("charref", "", <<>>, "38"),
      Event("comment", "", <<>>, "c") }

FragmentDocuments ==
    { [config |-> CONFIG, document |-> prefix \o events] :
        prefix \in { <<>>, <<StartTag("nav", <<>>)>> },
        events \in { e \in UNION { [1..n -> FragmentEvents] : n \in 1..2 } :
                       Len(e) = 2 => ~(e[1].kind = "data" /\ e[2].kind = "data") } }

Documents ==
    TableDocuments \cup HeaderDocuments \cup TitleDocuments \cup ChainDocuments
        \cup FragmentDocuments

DocInit ==
    /\ \E d \in Documents : config = d.config /\ alphabet = [document |-> d.document]
    /\ html = ""
    /\ tokens = <<>>
    /\ open = <<>>
    /\ wellNested = TRUE
    /\ parser = NewParser
    /\ pc = "feed"
    /\ result = None
    /\ errors = <<>>
    /\ view = None

\* the tokenizer delivers the next event of the document
FeedDocument ==
    /\ pc = "feed"
    /\ Len(tokens) < Len(alphabet.document)
    /\ LET e == alphabet.document[Len(tokens) + 1]
           closes == e.kind = "endtag" /\ open # <<>> /\ Last(open).tag = e.tag
       IN  /\ parser' = Dispatch(parser, e)
           /\ open' = IF e.kind = "starttag" /\ e.tag \notin VoidTags
                      THEN Append(open, Opened(e.tag, e.attrs, parser, parser',
                                               Len(html) + Len(Raw(e))))
                      ELSE IF closes THEN SubSeq(open, 1, Len(open) - 1) ELSE open
           /\ wellNested' = (wellNested /\ (e.kind = "endtag" => closes))
           /\ Deliver(e)

\* the text is exhausted: parser.feed returns
FinishDocument ==
    /\ Len(tokens) = Len(alphabet.document)
    /\ Finish

DocNext ==
    \/ FeedDocument
    \/ FinishDocument

DocSpec == DocInit /\ [][DocNext]_vars

(***************************************************************************)
(* HtmlCleanerCommand.run on a view.  The buffer holds text without markup *)
(* (no "<" and no "&"), which the tokenizer delivers as one text event.    *)
(* The selection is the view's regions in document order, none overlapping *)
(* another; a region <<a, b>> covers the characters a+1..b and is empty    *)
(* (a caret) when a = b.                                                   *)
(***************************************************************************)
BufferText == "a  b "

Region(a, b) == <<a, b>>

empty(region) == region[1] = region[2]

\* view.substr(region)
substr(text, region) == Slice(text, region[1] + 1, region[2])

\* view.replace(edit, region, string)
replace(text, region, string) ==
    Slice(text, 1, region[1]) \o string \o Suffix(text, region[2] + 1)

Regions == { r \in { Region(a, b) : a, b \in 0..Len(BufferText) } : r[1] <= r[2] }

Selections ==
    { sel \in UNION { [1..n -> Regions] : n \in 1..MaxSelections } :
        \A i \in 1..(Len(sel) - 1) : sel[i][2] < sel[i + 1][1] }

CmdInit ==
    /\ config = CONFIG
    /\ alphabet = [document |-> <<>>]
    /\ html = ""
    /\ tokens = <<>>
    /\ open = <<>>
    /\ wellNested = TRUE
    /\ parser = NewParser
    /\ pc = "idle"
    /\ result = None
    /\ errors = <<>>
    /\ \E selections \in Selections :
          view = [ text |-> BufferText, selections |-> selections, i |-> 0,
                   region |-> None, cleaned |-> <<>>, status |-> None, at |-> "run" ]

\* len(selections) == 1 and selections[0].empty()
NoSelection == Len(view.selections) = 1 /\ empty(view.selections[1])

\* original = self.view.substr(region); clean_html(original, CONFIG) is entered:
\* a new parser, and the text without markup is one text event (none when empty)
CallCleanHtml(region) ==
    /\ alphabet' = [document |-> IF empty(region) THEN <<>>
                                 ELSE <<Text(substr(view.text, region))>>]
    /\ html' = ""
    /\ tokens' = <<>>
    /\ open' = <<>>
    /\ wellNested' = TRUE
    /\ parser' = NewParser
    /\ pc' = "feed"
    /\ result' = None
    /\ errors' = <<>>
    /\ UNCHANGED config

\* run, "No selection - clean entire file", up to the call of clean_html
RunEntireFile ==
    /\ view.at = "run"
    /\ NoSelection
    /\ CallCleanHtml(Region(0, Len(view.text)))
    /\ view' = [view EXCEPT !.region = Some(Region(0, Len(view.text))), !.at = "clean"]

\* run, one turn of "for i, sel in enumerate(reversed(selections))", up to the
\* call of clean_html when the region is not empty
RunSelection ==
    /\ view.at = "run"
    /\ ~NoSelection
    /\ view.i < Len(view.selections)
    /\ LET sel == view.selections[Len(view.selections) - view.i]
       IN  IF empty(sel)
           THEN /\ view' = [view EXCEPT !.i = @ + 1]
                /\ UNCHANGED cleaner
           ELSE /\ CallCleanHtml(sel)
                /\ view' = [view EXCEPT !.region = Some(sel), !.at = "clean"]

\* run, clean_html returned: self.view.replace(edit, region, cleaned), then the
\* status message of the whole file or the next turn of the loop
Replace ==
    /\ view.at = "clean"
    /\ pc = "done"
    /\ view' = [view EXCEPT
                  !.text = replace(@, view.region.some, result.some),
                  !.cleaned = Append(@, view.region.some),
                  !.region = None,
                  !.i = IF NoSelection THEN @ ELSE @ + 1,
                  !.status = IF NoSelection
                             THEN Some("HTML Cleaner: Cleaned entire file")
                             ELSE @,
                  !.at = IF NoSelection THEN "done" ELSE "run"]
    /\ pc' = "idle"
    /\ UNCHANGED <<config, html, tokens, open, wellNested, alphabet, parser, result, errors>>

\* run, the status message after the loop
ReportSelections ==
    /\ view.at = "run"
    /\ ~NoSelection
    /\ view.i = Len(view.selections)
    /\ view' = [view EXCEPT
                  !.status = Some("HTML Cleaner: Cleaned " \o Digit(Len(view.selections))
                                  \o " selection(s)"),
                  !.at = "done"]
    /\ UNCHANGED cleaner

CmdNext ==
    \/ RunEntireFile
    \/ RunSelection
    \/ FeedDocument
    \/ FinishDocument
    \/ Replace
    \/ ReportSelections

CmdSpec == CmdInit /\ [][CmdNext]_vars

(***************************************************************************)
(* Reading markup back out of the produced text.                           *)
(***************************************************************************)
\* the tag names of the start-tag and end-tag markup in text
TagsIn(text) ==
    { SubSeq(text, i + 1, i + WordLen(Suffix(text, i + 1))) :
        i \in { j \in 1..Len(text) :
                  SubSeq(text, j, j) = "<" /\ WordLen(Suffix(text, j + 1)) > 0 } }
    \cup
    { SubSeq(text, i + 2, i + 1 + WordLen(Suffix(text, i + 2))) :
        i \in { j \in 1..Len(text) :
                  StartsAt(text, j, "</") /\ WordLen(Suffix(text, j + 2)) > 0 } }

\* the position of the first occurrence of p in s, 0 without one
Find(s, p) == FindFrom(s, p, 1)

RECURSIVE AttrNamesOf(_)
\* the attribute names in the text that follows a start tag's name
AttrNamesOf(s) ==
    LET t == LStrip(s)
        eq == Find(t, "=\"")
        close == Find(Suffix(t, eq + 2), "\"")
    IN  IF t = "" \/ StartsWith(t, ">") \/ StartsWith(t, "/") \/ eq = 0 \/ close = 0
        THEN {}
        ELSE { SubSeq(t, 1, eq - 1) } \cup AttrNamesOf(Suffix(t, eq + 2 + close))

IsStartMarkup(fragment) ==
    StartsWith(fragment, "<") /\ WordLen(Suffix(fragment, 2)) > 0

StartTagOf(fragment) == SubSeq(fragment, 2, 1 + WordLen(Suffix(fragment, 2)))

StartAttrsOf(fragment) == AttrNamesOf(Suffix(fragment, 2 + WordLen(Suffix(fragment, 2))))

Range(seq) == { seq[i] : i \in 1..Len(seq) }

NoDuplicates(seq) == \A i, j \in 1..Len(seq) : i # j => seq[i] # seq[j]

\* some open element opened a removal region / a hidden-pretext region
InRemovedElement == \E i \in 1..Len(open) : open[i].skip

InHiddenElement == \E i \in 1..Len(open) : open[i].hidden

\* the event just delivered, when this step delivered one
Delivered == tokens' # tokens

(***************************************************************************)
(* The claims.                                                             *)
(***************************************************************************)

\* C1: in a well-nested stream a removal region covers exactly the subtree of
\* the start tag that opened it: the removal depth is positive exactly while
\* that element is open (so it is 0 once the element is closed, also for a
\* self-closing or void removable tag), and text that follows the removed
\* element reaches the main output.
C1_RemovalIsExactlyTheSubtree ==
    wellNested =>
        /\ parser.skip_depth > 0 <=> InRemovedElement
        /\ ( /\ tokens # <<>>
             /\ Last(tokens).kind = "data"
             /\ ~InRemovedElement
             /\ ~InHiddenElement
             /\ parser.pretext_depth = 0
             /\ ~parser.in_title )
           => (parser.output # <<>> /\ Last(parser.output) = Last(tokens).data)

\* C2: every start-tag or end-tag markup in the rewriter's output and in the
\* text clean_html returns names a tag of the configured keep-set, the
\* synthesized bold markers, inline anchors and paragraph wrappers included.
C2_OnlyKeptTagsInOutput ==
    /\ TagsIn(get_output(parser)) \subseteq config.keep_tags
    /\ pc = "done" => TagsIn(result.some) \subseteq config.keep_tags

\* C3: when the tokenizer fails, after any number of rewritten tokens,
\* clean_html returns exactly the raw input and reports the failure once.
C3_FallbackReturnsRawInput ==
    pc = "failed" => (result = Some(html) /\ Len(errors) = 1)

C3_Witness ==
    /\ pc = "failed"
    /\ Len(tokens) >= 3
    /\ parser.output # <<>>
    /\ parser.links # <<>>
    /\ result.some # get_output(parser)

\* C4: every attribute emitted with a kept tag (anchors included) is in that
\* tag's allow-list or in the "*" allow-list, and class, id, style and data-*
\* are never emitted while their strip flags are on.
C4_OnlyAllowedAttributes ==
    \A i \in 1..Len(parser.output) :
        IsStartMarkup(parser.output[i]) =>
            \A name \in StartAttrsOf(parser.output[i]) :
                /\ name \in Get(config.keep_attributes, StartTagOf(parser.output[i]))
                              \cup Get(config.keep_attributes, "*")
                /\ config.remove_classes => name # "class"
                /\ config.remove_ids => name # "id"
                /\ config.remove_inline_styles => name # "style"
                /\ config.remove_data_attributes => ~StartsWith(name, "data-")

\* the step delivers the start tag of a kept anchor outside every removal and
\* hidden-pretext region, and its href is not an inline exception
PlaceholderAnchorStep ==
    /\ Delivered
    /\ Last(tokens').kind \in { "starttag", "startendtag" }
    /\ Last(tokens').tag = "a"
    /\ "a" \in config.keep_tags
    /\ "a" \notin config.remove_with_content
    /\ parser.skip_depth = 0
    /\ parser.pretext_depth = 0
    /\ ~_is_hidden_pretext(Last(tokens').attrs)
    /\ ~IsInlineException(FirstHref(Last(tokens').attrs))

C5_LinkListState ==
    /\ NoDuplicates(parser.links)
    /\ Range(parser.links) = parser.link_set
    /\ \A i \in 1..Len(parser.links) :
          /\ parser.links[i] # ""
          /\ \A keyword \in { "mailto", "disclosure", "privacy" } :
                ~Contains(Lower(parser.links[i]), keyword)

C5_LinkListStep ==
    LET href == FirstHref(Last(tokens').attrs)
    IN  IF PlaceholderAnchorStep /\ Truthy(href)
        THEN parser'.links = IF href.some \in Range(parser.links)
                             THEN parser.links
                             ELSE Append(parser.links, href.some)
        ELSE parser'.links = parser.links

\* C5: the link list has no duplicate, no empty href and no inline-exception
\* href, has exactly the elements of the deduplication set, and grows only by
\* appending the href of a placeholder anchor at its first occurrence.
C5_LinksUniqueInFirstSeenOrder == [](C5_LinkListState) /\ [][C5_LinkListStep]_vars

\* three placeholder anchors with an href, two of them with the same href, and
\* one inline-exception anchor: two links
C5_Witness ==
    /\ Len(parser.links) = 2
    /\ Cardinality({ i \in 1..Len(tokens) :
                       /\ tokens[i].kind = "starttag"
                       /\ tokens[i].tag = "a"
                       /\ Truthy(FirstHref(tokens[i].attrs))
                       /\ ~IsInlineException(FirstHref(tokens[i].attrs)) }) = 3
    /\ Cardinality({ i \in 1..Len(parser.output) : parser.output[i] = "[link]" }) = 3
    /\ \E i \in 1..Len(tokens) :
          tokens[i].tag = "a" /\ IsInlineException(FirstHref(tokens[i].attrs))

\* C6: in a well-nested stream the pretext depth is positive exactly while the
\* hidden element that opened the region is open, whatever children it has;
\* once it is closed the captured text has been flushed and text that follows
\* goes to the main output.
C6_PretextRegionIsTheHiddenElement ==
    wellNested =>
        /\ parser.pretext_depth > 0 <=> InHiddenElement
        /\ ~InHiddenElement => parser.pretext_content = <<>>
        /\ ( /\ tokens # <<>>
             /\ Last(tokens).kind = "data"
             /\ ~InHiddenElement
             /\ ~InRemovedElement
             /\ parser.skip_depth = 0
             /\ ~parser.in_title )
           => (parser.output # <<>> /\ Last(parser.output) = Last(tokens).data)

\* C7: while the hidden-pretext depth is positive no event appends to the main
\* output.
C7_NoOutputInsidePretext ==
    [][parser.pretext_depth > 0 => parser'.output = parser.output]_vars

\* C8: while a title is being captured every text, entity-reference and
\* character-reference event is appended to the title buffer and to nothing
\* else.
C8_TitleCapturesAllText ==
    [][( /\ parser.in_title
         /\ parser.title = None
         /\ Delivered
         /\ Last(tokens').kind \in { "data", "entityref", "charref" } )
       => ( /\ parser'.title_content = Append(parser.title_content, Raw(Last(tokens')))
            /\ parser'.output = parser.output
            /\ parser'.pretext_content = parser.pretext_content )]_vars

\* the end tag of a self-closing tag is delivered right after its start tag
SelfClosingPairStep ==
    /\ Delivered
    /\ tokens # <<>>
    /\ Last(tokens).kind = "starttag"
    /\ Last(tokens).tag \in self_closing_tags
    /\ Last(tokens').kind = "endtag"
    /\ Last(tokens').tag = Last(tokens).tag

SelfClosingFormsState ==
    /\ \A t \in alphabet.start \cup alphabet.selfclosed :
          t[1] \in self_closing_tags =>
             handle_startendtag(parser, t[1], t[2]) = handle_starttag(parser, t[1], t[2])
    /\ \A i \in 1..Len(parser.output) :
          parser.output[i] \notin { "</img>", "</br>", "</hr>" }

\* C9: a self-closing tag (img, br, hr) delivered as one self-closing event, as
\* a lone start tag or as a start tag followed by its end tag leaves the same
\* output and the same rewriter state (the end tag of the pair changes
\* nothing), and no end-tag markup is ever emitted for these tags.
C9_SelfClosingFormsAgree ==
    [](SelfClosingFormsState) /\ [][SelfClosingPairStep => parser' = parser]_vars

\* the tags of the open elements that were given a bold-open marker
RECURSIVE BoldOpened(_)
BoldOpened(elements) ==
    IF elements = <<>> THEN <<>>
    ELSE (IF Head(elements).bold THEN <<Head(elements).tag>> ELSE <<>>)
         \o BoldOpened(Tail(elements))

\* C10: in a well-nested stream the bold stack holds exactly the open elements
\* that were given a bold-open marker (so a marker is closed by the end tag of
\* its own element and the stack is empty when every element is closed), and
\* every kept, non-self-closing start tag with a bold style got its marker.
C10_BoldMarkersFollowTheirElement ==
    wellNested =>
        /\ parser.bold_tag_stack = BoldOpened(open)
        /\ \A i \in 1..Len(open) :
              ( /\ _has_bold_style(open[i].attrs)
                /\ open[i].tag \notin self_closing_tags
                /\ Len(parser.output) > open[i].at
                /\ StartsWith(parser.output[open[i].at + 1], "<" \o open[i].tag) )
              => open[i].bold

\* the fragments this step appended to the main output
Written == SubSeq(parser'.output, Len(parser.output) + 1, Len(parser'.output))

\* the step delivers the end tag of the innermost open element, an anchor
AnchorCloseStep ==
    /\ Delivered
    /\ open # <<>>
    /\ Last(open).tag = "a"
    /\ open' = SubSeq(open, 1, Len(open) - 1)

\* C11: in a well-nested stream the end tag of a kept anchor writes the closing
\* form of what its own start tag wrote: the link-end placeholder for an anchor
\* opened with the link-start placeholder, a literal closing anchor tag for an
\* anchor opened with a literal anchor tag, also for anchors nested in anchors.
C11_AnchorClosesAsItOpened ==
    [][(wellNested /\ AnchorCloseStep)
       => ( /\ Last(open).wrote = <<"[link]">> => Written = <<"[/link]">>
            /\ ( /\ Len(Last(open).wrote) = 1
                 /\ StartsWith(Last(open).wrote[1], "<a href=") )
               => Written = <<"</a>">> )]_vars

\* the number of places where p occurs in s
CountOf(s, p) == Cardinality({ i \in 1..Len(s) : StartsAt(s, i, p) })

StructureTags == { "table", "thead", "tbody", "tfoot", "tr" }

CellTags == { "td", "th" }

\* the positions of the cell start tags whose cell holds text that is not blank
NonEmptyCells ==
    { i \in 1..Len(tokens) :
        /\ tokens[i].kind = "starttag"
        /\ tokens[i].tag \in CellTags
        /\ \E j \in (i + 1)..Len(tokens) :
              /\ tokens[j].kind = "endtag"
              /\ tokens[j].tag \in CellTags
              /\ \A k \in (i + 1)..(j - 1) : tokens[k].tag \notin CellTags
              /\ \E k \in (i + 1)..(j - 1) :
                    tokens[k].kind = "data" /\ Strip(tokens[k].data) # "" }

\* the whole document is one table, read to its end tag
WholeTableRead ==
    /\ config.convert_tables_to_paragraphs
    /\ tokens # <<>>
    /\ tokens[1] = StartTag("table", <<>>)
    /\ Last(tokens) = EndTag("table")
    /\ open = <<>>
    /\ wellNested

TableFlattenedState ==
    (pc = "done" /\ WholeTableRead) =>
        /\ CountOf(result.some, "<p>") = Cardinality(NonEmptyCells)
        /\ CountOf(result.some, "</p>") = Cardinality(NonEmptyCells)
        /\ ~Contains(result.some, CELL_START)
        /\ ~Contains(result.some, CELL_END)
        /\ TagsIn(result.some) \cap (StructureTags \cup CellTags) = {}

TableTagStep ==
    LET e == Last(tokens')
    IN  ( /\ Delivered
          /\ config.convert_tables_to_paragraphs
          /\ e.kind \in { "starttag", "endtag" }
          /\ parser.skip_depth = 0
          /\ parser.pretext_depth = 0 )
        => /\ e.tag \in StructureTags => Written = <<>>
           /\ e.tag \in CellTags =>
                 Written = <<(IF e.kind = "starttag" THEN CELL_START ELSE CELL_END)>>

\* C12: with table flattening on, table, thead, tbody, tfoot and tr tags write
\* nothing and td/th tags write a cell marker; in the cleaned text of a table
\* every non-empty cell is exactly one paragraph, empty cells have vanished and
\* no cell marker and no table-family tag remains.
C12_TableCellsBecomeParagraphs ==
    [](TableFlattenedState) /\ [][TableTagStep]_vars

\* "\n\n" between two blocks that are both there
Between(a, b) == IF a # "" /\ b # "" THEN "\n\n" ELSE ""

\* C13: the returned text is the header followed by the body.  The header is
\* the "Title: " line of a non-empty title, one "Pretext: " line per pretext
\* in capture order and the "Links:" line followed by one URL per line in
\* first-seen order, the blocks that are there separated by one blank line; two
\* blank lines separate the header from the body; without a title, a pretext
\* and a link the text is the body alone.
C13_HeaderThenBody ==
    pc = "done" =>
        LET body == Normalize(get_output(parser), config)
            T == IF Truthy(parser.title) THEN "Title: " \o parser.title.some ELSE ""
            P == Join("\n", [i \in 1..Len(parser.pretexts) |-> "Pretext: " \o parser.pretexts[i]])
            L == IF parser.links = <<>> THEN "" ELSE "Links:\n" \o Join("\n", parser.links)
            H == T \o Between(T, P \o L) \o P \o Between(P, L) \o L
        IN  result.some = H \o (IF H = "" THEN "" ELSE "\n\n\n") \o body

C13_Witness ==
    /\ pc = "done"
    /\ Truthy(parser.title)
    /\ Len(parser.pretexts) = 2
    /\ Len(parser.links) = 2
    /\ EndsWith(result.some, "<p>x</p>")

\* C14: once a title has been captured it never changes: no later title
\* element is captured (the capture flag stays off and the title buffer stays
\* empty), and text outside removal and hidden regions goes to the main output.
C14_TitleIsFrozen ==
    [][parser.title # None =>
         /\ parser'.title = parser.title
         /\ ~parser'.in_title
         /\ parser'.title_content = <<>>
         /\ ( /\ Delivered
              /\ Last(tokens').kind = "data"
              /\ parser.skip_depth = 0
              /\ parser.pretext_depth = 0 )
            => Written = <<Last(tokens').data>>]_vars

\* a second title element has been read after the title "A" was captured, and
\* its text is in the main output
C14_Witness ==
    /\ parser.title = Some("A")
    /\ Cardinality({ i \in 1..Len(tokens) : tokens[i] = StartTag("title", <<>>) }) = 2
    /\ Last(tokens) = EndTag("title")
    /\ parser.output # <<>>
    /\ Last(parser.output) = "B"

\* the document read is a chain of d kept elements written as paired tags (an
\* anchor among them is an inline exception), each the only child of the one
\* around it, the innermost holding nothing or blank text
IsChainOfDepth(d) ==
    /\ Len(tokens) \in { 2 * d, 2 * d + 1 }
    /\ \A i \in 1..d :
          /\ tokens[i].kind = "starttag"
          /\ tokens[i].tag \in config.keep_tags \ self_closing_tags
          /\ IF tokens[i].tag = "a"
             THEN IsInlineException(FirstHref(tokens[i].attrs))
             ELSE tokens[i].attrs = <<>>
          /\ tokens[Len(tokens) + 1 - i] = EndTag(tokens[i].tag)
    /\ Len(tokens) = 2 * d + 1 =>
          (tokens[d + 1].kind = "data" /\ Strip(tokens[d + 1].data) = "")

\* C15: with empty-tag removal on, the empty-tag stage (at most 3 passes)
\* removes completely a chain of paired tags nested to depth 1, 2 or 3 around
\* blank content, and clean_html returns the empty string for it.
C15_EmptyChainsVanish ==
    ( /\ pc = "done"
      /\ config.remove_empty_tags
      /\ \E d \in 1..EmptyTagPasses : IsChainOfDepth(d) )
    => /\ RemoveEmptyTags(get_output(parser), config) = ""
       /\ result = Some("")

\* the command has returned
CommandDone == view # None /\ view.at = "done"

\* the regions of the selection that are not empty, last in the document first
NonEmptySelections ==
    LET n == Len(view.selections)
        reversed == [k \in 1..n |-> view.selections[n + 1 - k]]
    IN  SelectSeq(reversed, LAMBDA region : ~empty(region))

\* C16: when the command has returned, clean_html was called exactly once on
\* each non-empty region of the selection, last region of the document first,
\* and when every region is empty (one caret or several) it was called once on
\* the whole buffer.
C16_SelectionsOrWholeDocument ==
    CommandDone =>
        view.cleaned = IF NonEmptySelections # <<>>
                       THEN NonEmptySelections
                       ELSE <<Region(0, Len(BufferText))>>

\* the status message that reports n cleaned selections
SelectionsMessage(n) == "HTML Cleaner: Cleaned " \o Digit(n) \o " selection(s)"

\* C17: when the command has run on a selection (not the single caret), the
\* count in the status message is the number of regions on which clean_html
\* was called and whose text was replaced.
C17_StatusCountsCleanedRegions ==
    (CommandDone /\ ~NoSelection) =>
        \E n \in 1..MaxSelections :
            /\ view.status = Some(SelectionsMessage(n))
            /\ n = Len(view.cleaned)

\* the text holds no markup: the tokenizer delivers it as one text event, or
\* as none when it is empty
IsPlainText(text) == ~Contains(text, "<") /\ ~Contains(text, "&")

\* clean_html(text, config) for a text without markup
CleanText(text) ==
    Cleaned(IF text = "" THEN NewParser ELSE handle_data(NewParser, text))

\* C18: under the default configuration clean_html is idempotent: cleaning its
\* own result again returns that result unchanged, also when the first pass
\* prepended a header (title, pretexts, links) and left [link] placeholders
\* (stated for the results that hold no markup, which are read back as text).
C18_CleanIsIdempotent ==
    ( /\ pc = "done"
      /\ config = CONFIG
      /\ result # None
      /\ IsPlainText(result.some) )
    => CleanText(result.some) = result.some

\* the step delivers an event while a removal region is open and no title is
\* being captured
RemovedEventStep == Delivered /\ parser.skip_depth > 0 /\ ~parser.in_title

\* C20: an event read while the removal depth is greater than 0 and no title
\* is being captured leaves the main output, the pretext buffer, the pretext
\* list, the pretext depth, the link list, the bold stack and the inline
\* anchor counter unchanged; only a start or end tag of the remove-with-content
\* set changes anything, and it changes only the removal depth.
C20_RemovalRegionFrame ==
    [][RemovedEventStep =>
         LET e == Last(tokens')
         IN  /\ parser'.output = parser.output
             /\ parser'.pretext_content = parser.pretext_content
             /\ parser'.pretexts = parser.pretexts
             /\ parser'.pretext_depth = parser.pretext_depth
             /\ parser'.links = parser.links
             /\ parser'.bold_tag_stack = parser.bold_tag_stack
             /\ parser'.inline_anchor_depth = parser.inline_anchor_depth
             /\ IF e.kind \in { "starttag", "startendtag", "endtag" }
                   /\ e.tag \in config.remove_with_content
                THEN parser' = [parser EXCEPT !.skip_depth = parser'.skip_depth]
                ELSE parser' = parser]_vars

\* the steps clean_html still has to take: one per event of the document not
\* yet delivered and one for the rest of clean_html after parser.feed
Remaining == IF pc = "feed" THEN Len(alphabet.document) - Len(tokens) + 1 ELSE 0

IsPrefix(s, t) == Len(s) <= Len(t) /\ SubSeq(t, 1, Len(s)) = s

\* C21: after any sequence of events, well-nested or not (stray end tags,
\* start tags that nothing closes), the removal depth, the hidden-pretext depth
\* and the inline-anchor counter are integers >= 0; the two depths are separate
\* counters (no event changes both, and an event changes one by at most 1);
\* and the main output only grows by appending: what it held before an event
\* is the beginning of what it holds after.
C21_CountersAndAppendOnlyOutput ==
    /\ []( /\ parser.skip_depth \in Nat
           /\ parser.pretext_depth \in Nat
           /\ parser.inline_anchor_depth \in Nat )
    /\ [][Delivered =>
            /\ ~( /\ parser'.skip_depth # parser.skip_depth
                  /\ parser'.pretext_depth # parser.pretext_depth )
            /\ parser'.skip_depth - parser.skip_depth \in { -1, 0, 1 }
            /\ parser'.pretext_depth - parser.pretext_depth \in { -1, 0, 1 }
            /\ IsPrefix(parser.output, parser'.output)]_vars

\* two end tags that close nothing have been read, of a removable element and
\* of an anchor: the counters are still 0 and the anchor's placeholder was
\* appended
C21_Witness ==
    /\ ~wellNested
    /\ tokens = <<EndTag("nav"), EndTag("a")>>
    /\ parser.skip_depth = 0
    /\ parser.pretext_depth = 0
    /\ parser.inline_anchor_depth = 0
    /\ parser.output = <<"[/link]">>

====
